---- MODULE Spec2Model ----
(***************************************************************************)
(* Signal generation, equity-curve simulation and trade ledger of the      *)
(* backtesting framework (strategies/strategy1.py, strategies/strategy4.py *)
(* and backtest.py).                                                       *)
(*                                                                         *)
(* Rows of the working DataFrame are numbered 1..n here (iloc position k   *)
(* of the source is row k+1); the Date of a row is its row number, dates   *)
(* being strictly increasing.  Floating-point values are modelled as exact *)
(* rationals [n |-> numerator, d |-> denominator] in lowest terms.         *)
(***************************************************************************)
EXTENDS Integers, Sequences, FiniteSets, TLC

VARIABLES
    download,       \* get_data: the rows yf.download has for the ticker
    completed,      \* history: the tables and results of the runs completed so far
    bars,           \* main: df, the bar table get_data returned
    strategy,       \* main: strategy_name
    ind,            \* generate_signals: df with its indicator columns, before dropna
    Index,          \* the input bar each row of the working series comes from
    stats,          \* calculate_metrics: the figures of lines 28-46
    main_return,    \* what main returned (Pending before)
    gui,            \* BacktestApp: status bar, results label, error dialog
    integrity,      \* what check_signal_integrity returned (Pending before)
    suspended,      \* the calls of main waiting in plt.show() below the running one
    pc,             \* position of the run: which loop / function is executing
    Close,          \* df["Close"] of the working series
    buy_condition,  \* generate_signals: buy_condition (local boolean Series)
    sell_condition, \* generate_signals: sell_condition (local boolean Series)
    Signal,         \* df["Signal"]
    EquityCurve,    \* df["EquityCurve"]
    in_position,    \* generate_signals: in_position (used by both loops)
    entry_price,    \* entry_price local of the running function
    i,              \* loop index of the running loop (1-based row number)
    position,       \* calculate_metrics: position (0 or 1)
    entry_date,     \* calculate_metrics: entry_date (0 stands for None)
    trades,         \* calculate_metrics: trades list
    result          \* what calculate_metrics returned (Pending before)

vars == <<download, completed, suspended, integrity, gui, bars, strategy, ind, Index, stats, main_return, pc, Close, buy_condition, sell_condition, Signal, EquityCurve,
          in_position, entry_price, i, position, entry_date, trades, result>>

\* ------------------------------------------------------------------ bounds
MaxLen == 5

\* Close prices the bars are drawn from.
Prices == {100, 110}

\* The close series of the scenario of the specification's section 8.
ScenarioClose == <<100, 110, 90, 130>>

\* ------------------------------------------------------- exact arithmetic
Abs(x) == IF x < 0 THEN -x ELSE x

RECURSIVE GCD(_, _)
GCD(a, b) == IF b = 0 THEN a ELSE GCD(b, a % b)

\* The rational p/q (q # 0) in lowest terms with a positive denominator.
Rat(p, q) ==
    LET g == GCD(Abs(p), Abs(q))
        s == IF q < 0 THEN -1 ELSE 1
    IN  [n |-> (s * p) \div g, d |-> (s * q) \div g]

RatOfInt(k) == [n |-> k, d |-> 1]
\* Sums and products are formed over the least common denominator and
\* after cancelling, which keeps the intermediate integers small.
RatAdd(x, y) ==
    LET g == GCD(x.d, y.d)
    IN  Rat(x.n * (y.d \div g) + y.n * (x.d \div g), (x.d \div g) * y.d)
RatMul(x, y) ==
    LET g1 == GCD(Abs(x.n), y.d)
        g2 == GCD(Abs(y.n), x.d)
    IN  IF x.n = 0 \/ y.n = 0
        THEN [n |-> 0, d |-> 1]
        ELSE Rat((x.n \div g1) * (y.n \div g2), (x.d \div g2) * (y.d \div g1))
RatLess(x, y) ==
    LET g == GCD(x.d, y.d)
    IN  x.n * (y.d \div g) < y.n * (x.d \div g)
RatSub(x, y) == RatAdd(x, [n |-> -y.n, d |-> y.d])

\* x / y for y # 0.
RatDiv(x, y) == RatMul(x, Rat(y.d, y.n))

One == RatOfInt(1)
Zero == RatOfInt(0)

\* The sum of a series, formed by halves.
RECURSIVE RatSum(_)
RatSum(xs) ==
    IF Len(xs) = 0
    THEN Zero
    ELSE IF Len(xs) = 1
    THEN xs[1]
    ELSE LET m == Len(xs) \div 2
         IN  RatAdd(RatSum(SubSeq(xs, 1, m)), RatSum(SubSeq(xs, m + 1, Len(xs))))

\* The floating-point values that are no numbers.
NaN == [tag |-> "nan"]
Inf == [tag |-> "inf"]
NegInf == [tag |-> "-inf"]

\* What calculate_metrics returned: nothing yet, or the value None of the
\* source (the returned tuple is built by MetricsResult).
Pending == [tag |-> "pending"]
None == [tag |-> "None"]

\* calculate_metrics has not computed its figures.
NoStats == [tag |-> "none"]

\* run_backtest.py lines 48-55: the window of the application as
\* constructed.
GuiReady == [status |-> "Ready", label |-> "", dialog |-> ""]

\* backtest.py lines 229-234: main is run from the command line; there is
\* no window.
NoGui == [status |-> "", label |-> "", dialog |-> ""]

\* ------------------------------------------------ generate_signals: signals
\* Variant: the buy branch does not test the position ("if buy_condition").
SignalStepNoFlatGuard(sig, pos, ep, k) ==
    IF buy_condition[k]
    THEN [Signal |-> [sig EXCEPT ![k] = 1], in_position |-> TRUE,
          entry_price |-> Close[k]]
    ELSE IF pos /\ sell_condition[k]
    THEN [Signal |-> [sig EXCEPT ![k] = -1], in_position |-> FALSE,
          entry_price |-> ep]
    ELSE [Signal |-> [sig EXCEPT ![k] = 0], in_position |-> pos,
          entry_price |-> ep]

\* Variant: the sell branch does not test the position ("elif sell_condition").
SignalStepSellWhenFlat(sig, pos, ep, k) ==
    IF ~pos /\ buy_condition[k]
    THEN [Signal |-> [sig EXCEPT ![k] = 1], in_position |-> TRUE,
          entry_price |-> Close[k]]
    ELSE IF sell_condition[k]
    THEN [Signal |-> [sig EXCEPT ![k] = -1], in_position |-> FALSE,
          entry_price |-> ep]
    ELSE [Signal |-> [sig EXCEPT ![k] = 0], in_position |-> pos,
          entry_price |-> ep]

\* Variant: the sell test is a second "if", so a bar that opens a position
\* can close it at once.
SignalStepSameBarExit(sig, pos, ep, k) ==
    LET bought == ~pos /\ buy_condition[k]
        pos1 == pos \/ bought
    IN  IF pos1 /\ sell_condition[k]
        THEN [Signal |-> [sig EXCEPT ![k] = -1], in_position |-> FALSE,
              entry_price |-> IF bought THEN Close[k] ELSE ep]
        ELSE IF bought
        THEN [Signal |-> [sig EXCEPT ![k] = 1], in_position |-> TRUE,
              entry_price |-> Close[k]]
        ELSE [Signal |-> [sig EXCEPT ![k] = 0], in_position |-> pos,
              entry_price |-> ep]

\* One iteration of the signal loop at row k (lines 39-49): the new
\* [Signal, in_position, entry_price].
SignalStep(sig, pos, ep, k) ==
    IF ~pos /\ buy_condition[k]
    THEN [Signal |-> [sig EXCEPT ![k] = 1], in_position |-> TRUE,
          entry_price |-> Close[k]]
    ELSE IF pos /\ sell_condition[k]
    THEN [Signal |-> [sig EXCEPT ![k] = -1], in_position |-> FALSE,
          entry_price |-> ep]
    ELSE [Signal |-> [sig EXCEPT ![k] = 0], in_position |-> pos,
          entry_price |-> ep]

\* The state before the signal loop on a working series of length n:
\* Signal is all zero, the position is flat.
InitSeries(n) ==
    /\ Close \in [1..n -> Prices]
    /\ buy_condition \in [1..n -> BOOLEAN]
    /\ sell_condition \in [1..n -> BOOLEAN]
    /\ Signal = [k \in 1..n |-> 0]

InitLocals ==
    /\ pc = "signal"
    /\ EquityCurve = <<>>
    /\ in_position = FALSE
    /\ entry_price = 0
    /\ i = 1
    /\ position = 0
    /\ entry_date = 0
    /\ trades = <<>>
    /\ result = Pending
    /\ stats = NoStats
    /\ main_return = Pending
    /\ gui = NoGui
    /\ integrity = Pending
    /\ suspended = <<>>
    /\ completed = {}

\* No bar table: the working series and its conditions are given as such.
NoBars ==
    /\ download = <<>>
    /\ bars = <<>>
    /\ strategy = "any"
    /\ ind = <<>>
    /\ Index = [k \in 1..Len(Close) |-> k]

Init ==
    /\ \E n \in 0..MaxLen : InitSeries(n)
    /\ NoBars
    /\ InitLocals

SignalIter ==
    /\ pc = "signal"
    /\ i <= Len(Signal)
    /\ LET r == SignalStep(Signal, in_position, entry_price, i)
       IN  /\ Signal' = r.Signal
           /\ in_position' = r.in_position
           /\ entry_price' = r.entry_price
    /\ i' = i + 1
    /\ UNCHANGED <<pc, Close, buy_condition, sell_condition, EquityCurve,
                   position, entry_date, trades, result>>
    /\ UNCHANGED <<suspended, integrity, gui, bars, strategy, ind, Index, stats, main_return>>
    /\ UNCHANGED <<download, completed>>

\* ------------------------------------------------- generate_signals: equity
\* Lines 51-54: the EquityCurve column is created as 1.0 everywhere and the
\* position state is reset.
\* Variant: the column starts as a cumulative return, 0.0.
EquityColumnZero(n) == [k \in 1..n |-> RatOfInt(0)]

\* Line 52: df["EquityCurve"] = 1.0, one value per row.
EquityColumn(n) == [k \in 1..n |-> One]

EquityInit ==
    /\ pc = "signal"
    /\ i > Len(Signal)
    /\ EquityCurve' = EquityColumn(Len(Signal))
    /\ in_position' = FALSE
    /\ entry_price' = 0
    /\ i' = 2
    /\ pc' = "equity"
    /\ UNCHANGED <<Close, buy_condition, sell_condition, Signal,
                   position, entry_date, trades, result>>
    /\ UNCHANGED <<suspended, integrity, gui, bars, strategy, ind, Index, stats, main_return>>
    /\ UNCHANGED <<download, completed>>

\* Variant: the entry price is the close of the row being written (the bar
\* after the buy signal), not of the signal's bar.
EquityStepEntryAtNextBar(sig, close, eq, pos, ep, k) ==
    IF sig[k-1] = 1
    THEN [EquityCurve |-> [eq EXCEPT ![k] = eq[k-1]], in_position |-> TRUE,
          entry_price |-> close[k]]
    ELSE IF sig[k-1] = -1 /\ pos
    THEN LET exit_price == close[k-1]
             pct_change == Rat(exit_price - ep, ep)
         IN  [EquityCurve |-> [eq EXCEPT ![k] = RatMul(eq[k-1], RatAdd(One, pct_change))],
              in_position |-> FALSE, entry_price |-> ep]
    ELSE [EquityCurve |-> [eq EXCEPT ![k] = eq[k-1]], in_position |-> pos,
          entry_price |-> ep]

\* Variant: a buy sets the position flag and records no entry price.
EquityStepNoEntryPrice(sig, close, eq, pos, ep, k) ==
    IF sig[k-1] = 1
    THEN [EquityCurve |-> [eq EXCEPT ![k] = eq[k-1]], in_position |-> TRUE,
          entry_price |-> ep]
    ELSE IF sig[k-1] = -1 /\ pos
    THEN LET exit_price == close[k-1]
             pct_change == Rat(exit_price - ep, ep)
         IN  [EquityCurve |-> [eq EXCEPT ![k] = RatMul(eq[k-1], RatAdd(One, pct_change))],
              in_position |-> FALSE, entry_price |-> ep]
    ELSE [EquityCurve |-> [eq EXCEPT ![k] = eq[k-1]], in_position |-> pos,
          entry_price |-> ep]

\* Variant: a buy records the entry price and leaves the position flag as
\* it was.
EquityStepBuyKeepsFlat(sig, close, eq, pos, ep, k) ==
    IF sig[k-1] = 1
    THEN [EquityCurve |-> [eq EXCEPT ![k] = eq[k-1]], in_position |-> pos,
          entry_price |-> close[k-1]]
    ELSE IF sig[k-1] = -1 /\ pos
    THEN LET exit_price == close[k-1]
             pct_change == Rat(exit_price - ep, ep)
         IN  [EquityCurve |-> [eq EXCEPT ![k] = RatMul(eq[k-1], RatAdd(One, pct_change))],
              in_position |-> FALSE, entry_price |-> ep]
    ELSE [EquityCurve |-> [eq EXCEPT ![k] = eq[k-1]], in_position |-> pos,
          entry_price |-> ep]

\* Variant: the loop reads the signal and the close of the row it writes
\* (same-bar execution).
EquityStepSameBar(sig, close, eq, pos, ep, k) ==
    IF sig[k] = 1
    THEN [EquityCurve |-> [eq EXCEPT ![k] = eq[k-1]], in_position |-> TRUE,
          entry_price |-> close[k]]
    ELSE IF sig[k] = -1 /\ pos
    THEN LET exit_price == close[k]
             pct_change == Rat(exit_price - ep, ep)
         IN  [EquityCurve |-> [eq EXCEPT ![k] = RatMul(eq[k-1], RatAdd(One, pct_change))],
              in_position |-> FALSE, entry_price |-> ep]
    ELSE [EquityCurve |-> [eq EXCEPT ![k] = eq[k-1]], in_position |-> pos,
          entry_price |-> ep]

\* One iteration of the equity loop at row k >= 2 (lines 57-70): the new
\* [EquityCurve, in_position, entry_price].
EquityStep(sig, close, eq, pos, ep, k) ==
    IF sig[k-1] = 1
    THEN [EquityCurve |-> [eq EXCEPT ![k] = eq[k-1]], in_position |-> TRUE,
          entry_price |-> close[k-1]]
    ELSE IF sig[k-1] = -1 /\ pos
    THEN LET exit_price == close[k-1]
             pct_change == Rat(exit_price - ep, ep)
         IN  [EquityCurve |-> [eq EXCEPT ![k] = RatMul(eq[k-1], RatAdd(One, pct_change))],
              in_position |-> FALSE, entry_price |-> ep]
    ELSE [EquityCurve |-> [eq EXCEPT ![k] = eq[k-1]], in_position |-> pos,
          entry_price |-> ep]

\* Lines 51-70 as a whole: the EquityCurve column of a table with the
\* Signal column sig and the Close column close.
RECURSIVE EquityLoopFrom(_, _, _, _, _, _)
EquityLoopFrom(sig, close, eq, pos, ep, k) ==
    IF k > Len(sig)
    THEN eq
    ELSE LET r == EquityStep(sig, close, eq, pos, ep, k)
         IN  EquityLoopFrom(sig, close, r.EquityCurve, r.in_position, r.entry_price, k + 1)

EquityLoop(sig, close) == EquityLoopFrom(sig, close, EquityColumn(Len(sig)), FALSE, 0, 2)

EquityIter ==
    /\ pc = "equity"
    /\ i <= Len(Signal)
    /\ LET r == EquityStep(Signal, Close, EquityCurve, in_position, entry_price, i)
       IN  /\ EquityCurve' = r.EquityCurve
           /\ in_position' = r.in_position
           /\ entry_price' = r.entry_price
    /\ i' = i + 1
    /\ UNCHANGED <<pc, Close, buy_condition, sell_condition, Signal,
                   position, entry_date, trades, result>>
    /\ UNCHANGED <<suspended, integrity, gui, bars, strategy, ind, Index, stats, main_return>>
    /\ UNCHANGED <<download, completed>>

\* Lines 72-77: generate_signals returns the table; its locals are gone.
Return ==
    /\ pc = "equity"
    /\ i > Len(Signal)
    /\ pc' = "returned"
    /\ buy_condition' = <<>>
    /\ sell_condition' = <<>>
    /\ in_position' = FALSE
    /\ entry_price' = 0
    /\ i' = 1
    /\ UNCHANGED <<Close, Signal, EquityCurve, position, entry_date, trades, result>>
    /\ UNCHANGED <<suspended, integrity, gui, bars, strategy, ind, Index, stats, main_return>>
    /\ UNCHANGED <<download, completed>>

\* ------------------------------------------------------- calculate_metrics
\* Line 20: df["Signal"].diff().fillna(0).
SignalChanges(sig) ==
    [k \in 1..Len(sig) |-> IF k = 1 THEN 0 ELSE sig[k] - sig[k-1]]

\* Lines 21-22: the rows where the difference is 1, and where it is -2.
Entries(sig) == {k \in 1..Len(sig) : SignalChanges(sig)[k] = 1}
Exits(sig) == {k \in 1..Len(sig) : SignalChanges(sig)[k] = -2}

\* Line 24: the test that makes calculate_metrics return None at once.
NoSignalChanges(sig) == Cardinality(Entries(sig)) = 0 \/ Cardinality(Exits(sig)) = 0

\* The table generate_signals returned (the Date of a row is its number).
StrategyDf == [Close |-> Close, Signal |-> Signal, EquityCurve |-> EquityCurve]

\* The history of completed runs when calculate_metrics returns res: the
\* strategy that was run, the table it was given and what it returned, and
\* whether a run of the same strategy was completed before.  No statement
\* of the program reads the history.
Completed(res) ==
    completed \cup {[strategy |-> strategy, strategy_df |-> StrategyDf,
                     result |-> res,
                     again |-> \E c \in completed : c.strategy = strategy]}

\* Lines 24-26: "No trades executed", return None.
MetricsNoTrades ==
    /\ pc = "returned"
    /\ NoSignalChanges(Signal)
    /\ result' = None
    /\ completed' = Completed(None)
    /\ pc' = "done"
    /\ UNCHANGED <<Close, buy_condition, sell_condition, Signal, EquityCurve,
                   in_position, entry_price, i, position, entry_date, trades>>
    /\ UNCHANGED <<suspended, integrity, gui, bars, strategy, ind, Index, stats, main_return>>
    /\ UNCHANGED download

\* Lines 29-31: total_return.
TotalReturn(eq) == RatSub(RatDiv(eq[Len(eq)], eq[1]), One)

\* Line 38: df["EquityCurve"].pct_change().fillna(0).
DailyReturn(eq) ==
    [k \in 1..Len(eq) |-> IF k = 1 THEN Zero ELSE RatSub(RatDiv(eq[k], eq[k-1]), One)]

\* Series.mean().
Mean(xs) == RatDiv(RatSum(xs), RatOfInt(Len(xs)))

\* The square of Series.std() (sample variance, ddof = 1), for two values
\* or more.
Variance(xs) ==
    LET avg == Mean(xs)
        sq == [k \in 1..Len(xs) |-> RatMul(RatSub(xs[k], avg), RatSub(xs[k], avg))]
    IN  RatDiv(RatSum(sq), RatOfInt(Len(xs) - 1))

\* Variant: a zero standard deviation is caught and the ratio reported as 0.
SharpeRatioZeroGuard(eq) ==
    LET r == DailyReturn(eq)
    IN  IF Len(r) < 2
        THEN NaN
        ELSE IF Variance(r) = Zero
        THEN Zero
        ELSE [tag |-> "finite", avg |-> Mean(r), var |-> Variance(r)]

\* Lines 39-41: np.sqrt(252) * avg_daily_return / daily_std, a numpy
\* division: 0/0 is nan, x/0 is +-inf, and the standard deviation of a
\* single value is nan.  A finite ratio is kept as the mean and the
\* variance it is computed from (its value is sqrt(252) * avg / sqrt(var)).
SharpeRatio(eq) ==
    LET r == DailyReturn(eq)
    IN  IF Len(r) < 2
        THEN NaN
        ELSE IF Variance(r) = Zero
        THEN IF Mean(r) = Zero THEN NaN
             ELSE IF RatLess(Zero, Mean(r)) THEN Inf ELSE NegInf
        ELSE [tag |-> "finite", avg |-> Mean(r), var |-> Variance(r)]

\* Variant: the peak is the maximum of the whole curve, not the running one.
PeakGlobal(eq) ==
    [k \in 1..Len(eq) |->
        CHOOSE x \in {eq[j] : j \in 1..Len(eq)} :
            \A j \in 1..Len(eq) : ~RatLess(x, eq[j])]

\* Line 44: df["EquityCurve"].cummax().
Peak(eq) ==
    [k \in 1..Len(eq) |->
        CHOOSE x \in {eq[j] : j \in 1..k} : \A j \in 1..k : ~RatLess(x, eq[j])]

\* Line 45: (EquityCurve - Peak) / Peak.
Drawdown(eq) ==
    [k \in 1..Len(eq) |-> RatDiv(RatSub(eq[k], Peak(eq)[k]), Peak(eq)[k])]

\* Line 46: df["Drawdown"].min().
MaxDrawdown(eq) ==
    LET dd == Drawdown(eq)
    IN  CHOOSE x \in {dd[j] : j \in 1..Len(eq)} :
            \A j \in 1..Len(eq) : ~RatLess(dd[j], x)

\* Lines 28-46: the figures computed from the equity curve.
EquityStats(eq) ==
    [tag |-> "stats",
     total_return |-> TotalReturn(eq),
     sharpe_ratio |-> SharpeRatio(eq),
     max_drawdown |-> MaxDrawdown(eq)]

\* Variant: the trades list is not created afresh, it outlives the call.
MetricsBeginKeepTrades ==
    /\ pc = "returned"
    /\ ~NoSignalChanges(Signal)
    /\ stats' = EquityStats(EquityCurve)
    /\ position' = 0
    /\ entry_price' = 0
    /\ entry_date' = 0
    /\ i' = 1
    /\ pc' = "ledger"
    /\ UNCHANGED <<Close, buy_condition, sell_condition, Signal, EquityCurve,
                   in_position, result, trades>>
    /\ UNCHANGED <<suspended, integrity, gui, bars, strategy, ind, Index, main_return>>
    /\ UNCHANGED <<download, completed>>

\* Lines 28-52: past the early return; the equity figures are computed
\* and the ledger scan starts flat.
MetricsBegin ==
    /\ pc = "returned"
    /\ ~NoSignalChanges(Signal)
    /\ stats' = EquityStats(EquityCurve)
    /\ trades' = <<>>
    /\ position' = 0
    /\ entry_price' = 0
    /\ entry_date' = 0
    /\ i' = 1
    /\ pc' = "ledger"
    /\ UNCHANGED <<Close, buy_condition, sell_condition, Signal, EquityCurve,
                   in_position, result>>
    /\ UNCHANGED <<suspended, integrity, gui, bars, strategy, ind, Index, main_return>>
    /\ UNCHANGED <<download, completed>>

\* Line 68: (exit_price - entry_price) / entry_price * 100.
ReturnPct(ep, xp) == RatMul(Rat(xp - ep, ep), RatOfInt(100))

\* Variant: the sell branch does not reset position to 0.
LedgerStepNoReset(sig, close, pos, ep, ed, tr, k) ==
    IF sig[k] = 1 /\ pos = 0
    THEN [position |-> 1, entry_price |-> close[k], entry_date |-> k, trades |-> tr]
    ELSE IF sig[k] = -1 /\ pos = 1
    THEN LET exit_price == close[k]
             exit_date == k
         IN  [position |-> 1, entry_price |-> ep, entry_date |-> ed,
              trades |-> Append(tr, [EntryDate |-> ed,
                                     ExitDate |-> exit_date,
                                     EntryPrice |-> ep,
                                     ExitPrice |-> exit_price,
                                     ReturnPct |-> ReturnPct(ep, exit_price)])]
    ELSE [position |-> pos, entry_price |-> ep, entry_date |-> ed, trades |-> tr]

\* Variant: the exit price is taken lag-one, from the bar after the sell
\* signal (the last bar's own close when there is none).
LedgerStepExitAtNextBar(sig, close, pos, ep, ed, tr, k) ==
    IF sig[k] = 1 /\ pos = 0
    THEN [position |-> 1, entry_price |-> close[k], entry_date |-> k, trades |-> tr]
    ELSE IF sig[k] = -1 /\ pos = 1
    THEN LET exit_price == close[IF k < Len(close) THEN k + 1 ELSE k]
             exit_date == k
         IN  [position |-> 0, entry_price |-> ep, entry_date |-> ed,
              trades |-> Append(tr, [EntryDate |-> ed,
                                     ExitDate |-> exit_date,
                                     EntryPrice |-> ep,
                                     ExitPrice |-> exit_price,
                                     ReturnPct |-> ReturnPct(ep, exit_price)])]
    ELSE [position |-> pos, entry_price |-> ep, entry_date |-> ed, trades |-> tr]

\* One iteration of the ledger scan at row k (lines 55-69): the new
\* [position, entry_price, entry_date, trades].
LedgerStep(sig, close, pos, ep, ed, tr, k) ==
    IF sig[k] = 1 /\ pos = 0
    THEN [position |-> 1, entry_price |-> close[k], entry_date |-> k, trades |-> tr]
    ELSE IF sig[k] = -1 /\ pos = 1
    THEN LET exit_price == close[k]
             exit_date == k
         IN  [position |-> 0, entry_price |-> ep, entry_date |-> ed,
              trades |-> Append(tr, [EntryDate |-> ed,
                                     ExitDate |-> exit_date,
                                     EntryPrice |-> ep,
                                     ExitPrice |-> exit_price,
                                     ReturnPct |-> ReturnPct(ep, exit_price)])]
    ELSE [position |-> pos, entry_price |-> ep, entry_date |-> ed, trades |-> tr]

LedgerIter ==
    /\ pc = "ledger"
    /\ i <= Len(Signal)
    /\ LET r == LedgerStep(Signal, Close, position, entry_price, entry_date, trades, i)
       IN  /\ position' = r.position
           /\ entry_price' = r.entry_price
           /\ entry_date' = r.entry_date
           /\ trades' = r.trades
    /\ i' = i + 1
    /\ UNCHANGED <<pc, Close, buy_condition, sell_condition, Signal, EquityCurve,
                   in_position, result>>
    /\ UNCHANGED <<suspended, integrity, gui, bars, strategy, ind, Index, stats, main_return>>
    /\ UNCHANGED <<download, completed>>

\* The Return % column of the ledger, and its positive and negative parts.
Returns(tr) == [t \in 1..Len(tr) |-> tr[t].ReturnPct]
IsWin(x) == RatLess(Zero, x)
IsLoss(x) == RatLess(x, Zero)
Wins(tr) == SelectSeq(Returns(tr), IsWin)
LossesOf(tr) == SelectSeq(Returns(tr), IsLoss)

\* Line 76: (trades_df["Return %"] > 0).mean().
WinRate(tr) == Rat(Len(Wins(tr)), Len(tr))

\* Lines 77-78: profits, and losses = abs(sum of the negative returns).
Profits(tr) == RatSum(Wins(tr))
Losses(tr) == LET x == RatSum(LossesOf(tr)) IN [n |-> Abs(x.n), d |-> x.d]

\* Variant: no losing trade gives a profit factor of 0.
ProfitFactorZero(tr) ==
    IF Losses(tr) # Zero THEN RatDiv(Profits(tr), Losses(tr)) ELSE Zero

\* Line 79: profits / losses if losses != 0 else float('inf').
ProfitFactor(tr) ==
    IF Losses(tr) # Zero THEN RatDiv(Profits(tr), Losses(tr)) ELSE Inf

\* Lines 82-84: avg_trade, avg_win, avg_loss.
AvgTrade(tr) == Mean(Returns(tr))
\* Variant: a trade of return 0 counts as a win.
AvgWinNonNegative(tr) ==
    LET nonneg == SelectSeq(Returns(tr), LAMBDA x : ~IsLoss(x))
    IN  IF Len(nonneg) > 0 THEN Mean(nonneg) ELSE Zero

AvgWin(tr) == IF Len(Wins(tr)) > 0 THEN Mean(Wins(tr)) ELSE Zero
AvgLoss(tr) == IF Len(LossesOf(tr)) > 0 THEN Mean(LossesOf(tr)) ELSE Zero

\* The rational x rounded to the nearest integer, ties to the even one.
RoundHalfEven(x) ==
    LET q == x.n \div x.d
        r == x.n % x.d
    IN  IF 2 * r < x.d THEN q
        ELSE IF 2 * r > x.d THEN q + 1
        ELSE IF q % 2 = 0 THEN q ELSE q + 1

\* x lies exactly halfway between two integers.
IsTie(x) == 2 * (x.n % x.d) = x.d

\* The digits a format of "f" type can give for a figure whose exact value
\* is x: the code computes the figure in doubles and the format rounds
\* the double it gets.  Away from a tie that is the integer nearest to x;
\* at a tie the double may lie on either side of x, or on it.
Rounded(x) ==
    IF IsTie(x) THEN {x.n \div x.d, x.n \div x.d + 1} ELSE {RoundHalfEven(x)}

\* f"{x:.2f}": "nan", "inf", "-inf", or the number in hundredths.
Format2f(x) ==
    IF x = NaN THEN {[text |-> "nan"]}
    ELSE IF x = Inf THEN {[text |-> "inf"]}
    ELSE IF x = NegInf THEN {[text |-> "-inf"]}
    ELSE {[hundredths |-> h] : h \in Rounded(RatMul(x, RatOfInt(100)))}

\* f"{x:.2%}": the number as a percentage, in hundredths of a percent.
FormatPct(x) ==
    IF x = NaN THEN {[text |-> "nan%"]}
    ELSE {[pct_hundredths |-> h] : h \in Rounded(RatMul(x, RatOfInt(10000)))}

\* f"{sharpe_ratio:.2f}": the text of a value that is no number; a finite
\* ratio is irrational and is reported by the figures it is computed from.
FormatSharpe(x) ==
    IF x \in {NaN, Inf, NegInf} \/ x = Zero THEN Format2f(x) ELSE {[ratio |-> x]}

\* Lines 87-99: the metrics dictionaries the code can return (CAGR and
\* the annualized volatility, powers and roots of these figures, are left
\* out).
Metrics(tr) ==
    [TotalTrades : {Len(tr)},
     TotalReturn : FormatPct(stats.total_return),
     SharpeRatio : FormatSharpe(stats.sharpe_ratio),
     MaxDrawdown : FormatPct(stats.max_drawdown),
     WinRate : FormatPct(WinRate(tr)),
     ProfitFactor : Format2f(ProfitFactor(tr)),
     AvgTrade : Format2f(AvgTrade(tr)),
     AvgWin : Format2f(AvgWin(tr)),
     AvgLoss : Format2f(AvgLoss(tr))]

\* Lines 71-105: None when the ledger is empty, else (metrics, trades_df).
MetricsResult(tr) ==
    IF Len(tr) = 0
    THEN {None}
    ELSE {[tag |-> "tuple", metrics |-> m, trades_df |-> tr] : m \in Metrics(tr)}

MetricsReturn ==
    /\ pc = "ledger"
    /\ i > Len(Signal)
    /\ result' \in MetricsResult(trades)
    /\ completed' = Completed(result')
    /\ pc' = "done"
    /\ UNCHANGED <<Close, buy_condition, sell_condition, Signal, EquityCurve,
                   in_position, entry_price, i, position, entry_date, trades>>
    /\ UNCHANGED <<suspended, integrity, gui, bars, strategy, ind, Index, stats, main_return>>
    /\ UNCHANGED download

\* ------------------------------------------------------------------- main
\* A DataFrame main hands on, as distinct from None.
DataFrame(rows) == [tag |-> "DataFrame", rows |-> rows]

\* Lines 189-200: what main returns for the result of calculate_metrics.
MainResult(res) ==
    IF res = None
    THEN <<None, None, StrategyDf>>
    ELSE <<res.metrics, DataFrame(res.trades_df), StrategyDf>>

\* Lines 193-196: calculate_metrics returned a report, and main calls
\* plot_equity_curve (lines 113-169), whose last statement plt.show() waits
\* until the chart window is closed and serves the events of the
\* application meanwhile.  Lines 158-159 write the columns Peak and
\* Drawdown of strategy_df, which are not among the columns of StrategyDf.
PlotEquityCurve ==
    /\ pc = "done"
    /\ result # None
    /\ pc' = "plot"
    /\ UNCHANGED <<suspended, result, main_return, gui>>
    /\ UNCHANGED <<integrity, bars, strategy, ind, Index, stats, Close,
                   buy_condition, sell_condition, Signal, EquityCurve,
                   in_position, entry_price, i, position, entry_date, trades>>
    /\ UNCHANGED <<download, completed>>

\* Line 191 (no report), or line 200 once plt.show() has returned.  The
\* chart window cannot be closed while a modal dialog is open.
MainReturn ==
    /\ \/ pc = "done" /\ result = None
       \/ pc = "plot" /\ gui.dialog = ""
    /\ main_return' = MainResult(result)
    /\ pc' = "exit"
    /\ UNCHANGED <<suspended, integrity, gui, bars, strategy, ind, Index, stats, Close, buy_condition,
                   sell_condition, Signal, EquityCurve, in_position, entry_price,
                   i, position, entry_date, trades, result>>
    /\ UNCHANGED <<download, completed>>

\* ------------------------------------------------- check_signal_integrity
\* debug_backtest.py lines 26-35: last_signal and the issues list after the
\* first n rows of the Signal column.
RECURSIVE IntegrityScan(_, _)
IntegrityScan(signals, n) ==
    IF n = 0
    THEN [last_signal |-> 0, issues |-> <<>>]
    ELSE LET prev == IntegrityScan(signals, n - 1)
         IN  IF signals[n] = 1
             THEN [last_signal |-> 1,
                   issues |-> IF prev.last_signal = 1
                              THEN Append(prev.issues,
                                          [issue |-> "Consecutive buy signals", at |-> n])
                              ELSE prev.issues]
             ELSE IF signals[n] = -1
             THEN [last_signal |-> -1,
                   issues |-> IF prev.last_signal = -1
                              THEN Append(prev.issues,
                                          [issue |-> "Consecutive sell signals", at |-> n])
                              ELSE prev.issues]
             ELSE prev

\* debug_backtest.py lines 19-44: (len(issues) == 0, issues).
CheckSignalIntegrity(signals) ==
    LET scanned == IntegrityScan(signals, Len(signals)).issues
        buy_count == Cardinality({k \in 1..Len(signals) : signals[k] = 1})
        sell_count == Cardinality({k \in 1..Len(signals) : signals[k] = -1})
        issues == IF buy_count # sell_count /\ buy_count # sell_count + 1
                  THEN Append(scanned, [issue |-> "Unbalanced signals", at |-> 0])
                  ELSE scanned
    IN  <<Len(issues) = 0, issues>>

\* check_signal_integrity is called on a table.
CheckIntegrity ==
    /\ pc = "integrity"
    /\ integrity' = CheckSignalIntegrity(Signal)
    /\ pc' = "checked"
    /\ UNCHANGED <<suspended, gui, bars, strategy, ind, Index, stats, main_return, Close,
                   buy_condition, sell_condition, Signal, EquityCurve,
                   in_position, entry_price, i, position, entry_date, trades,
                   result>>
    /\ UNCHANGED <<download, completed>>

\* ---------------------------------------------------------------- the GUI
\* run_backtest.py line 118: the test display_results makes for "no
\* trades".  main returns a tuple of three, which is never falsy; what is
\* left is a ledger that is there (not None) and empty.
ShowsNoTrades(ret) == ret[2] # None /\ Len(ret[2].rows) = 0

\* run_backtest.py lines 87-90 and 114-140: the window when display_results
\* has returned and line 88 has set the status, or when it has raised and
\* line 90 has opened the error dialog.  Past the test of line 118 the
\* tuple is unpacked, the frame "... Performance" is made (line 124) and
\* line 128 calls metrics.items(): on None that raises AttributeError,
\* which run_backtest catches at line 89; the status is still the one
\* line 82 set.
GuiOutcome(ret) ==
    IF ShowsNoTrades(ret)
    THEN [status |-> "Backtest completed", label |-> "No trades executed",
          dialog |-> ""]
    ELSE IF ret[1] = None
    THEN [status |-> gui.status, label |-> "Performance",
          dialog |-> "Error running backtest"]
    ELSE [status |-> "Backtest completed", label |-> "metrics", dialog |-> ""]

\* run_backtest.py lines 86-90: main has returned; the results are
\* displayed and the status bar is set, or the error dialog is opened:
\* messagebox.showerror is modal and returns when it is dismissed.
DisplayResults ==
    /\ pc = "exit"
    /\ gui' = GuiOutcome(main_return)
    /\ pc' = IF GuiOutcome(main_return).dialog = "" THEN "shown" ELSE "dialog"
    /\ UNCHANGED <<suspended, result, main_return>>
    /\ UNCHANGED <<integrity, bars, strategy, ind, Index, stats, Close,
                   buy_condition, sell_condition, Signal, EquityCurve,
                   in_position, entry_price, i, position, entry_date, trades>>
    /\ UNCHANGED <<download, completed>>

\* run_backtest.py lines 90-91: the error dialog is dismissed, and the
\* status bar is set.
DismissError ==
    /\ pc = "dialog"
    /\ gui' = [gui EXCEPT !.status = "Error running backtest", !.dialog = ""]
    /\ pc' = "shown"
    /\ UNCHANGED <<suspended, result, main_return>>
    /\ UNCHANGED <<integrity, bars, strategy, ind, Index, stats, Close,
                   buy_condition, sell_condition, Signal, EquityCurve,
                   in_position, entry_price, i, position, entry_date, trades>>
    /\ UNCHANGED <<download, completed>>

\* The application serves events: it is in root.mainloop() (constructed,
\* or the callback of Run Backtest has returned), a callback is in
\* root.update() (run_backtest.py line 83), or a call of main waits in
\* plt.show(); no modal dialog is open.
EventLoop ==
    /\ gui.dialog = ""
    /\ \/ pc = "ready"
       \/ pc = "shown" /\ suspended = <<>>
       \/ pc = "update"
       \/ pc = "plot"

\* What the ticker entry and the strategy combobox may hold when Run
\* Backtest is pressed: nothing, or a ticker, or one of the strategies.
Tickers == {"", "SPY"}
Strategies == {"", "strategy1", "strategy4"}

\* run_backtest.py lines 70-82: the window after Run Backtest is pressed
\* with this ticker and strategy: one of the two error dialogs, or the
\* status of the run.
Pressed(ticker, strat) ==
    IF ticker = ""
    THEN [gui EXCEPT !.dialog = "Please enter a ticker symbol"]
    ELSE IF strat = ""
    THEN [gui EXCEPT !.dialog = "Please select a strategy"]
    ELSE [gui EXCEPT !.status = "Running backtest"]

\* The calls of run_backtest that may be suspended below the running one.
MaxDepth == 1

\* What a suspended call of run_backtest holds: where it waits (in
\* root.update(), or in main in plt.show()), the strategy it read and, in
\* main, its result and its strategy_df, whose index names the bars its
\* rows come from.
Frame ==
    [pc |-> pc, strategy |-> strategy, result |-> result,
     strategy_df |-> StrategyDf, Index |-> Index]

\* run_backtest.py lines 70-83: Run Backtest is pressed, on the
\* constructed application, when a run has ended, or while a callback is
\* in root.update() or a call of main waits in plt.show().  The ticker and
\* the strategy are read from the window on every press.  Without a
\* ticker or a strategy an error dialog is shown and the callback
\* returns; else the status is set and root.update() serves the pending
\* events, and a call that was in root.update() or in plt.show() stays
\* suspended below the new one.  Whatever the run before left behind is
\* still there: the new call gets no fresh state from the model, only
\* what its own statements assign.
RunBacktest ==
    /\ EventLoop
    /\ \E ticker \in Tickers, strat \in Strategies :
          /\ gui' = Pressed(ticker, strat)
          /\ IF Pressed(ticker, strat).dialog # ""
             THEN UNCHANGED <<pc, strategy, suspended>>
             ELSE /\ pc' = "update"
                  /\ strategy' = strat
                  /\ IF pc \in {"update", "plot"}
                     THEN /\ Len(suspended) < MaxDepth
                          /\ suspended' = <<Frame>> \o suspended
                     ELSE suspended' = suspended
    /\ UNCHANGED <<result, main_return>>
    /\ UNCHANGED <<integrity, bars, ind, Index, stats, Close,
                   buy_condition, sell_condition, Signal, EquityCurve,
                   in_position, entry_price, i, position, entry_date, trades>>
    /\ UNCHANGED <<download, completed>>

\* run_backtest.py lines 83-86: root.update() has returned and
\* backtest.main is called.
StartMain ==
    /\ pc = "update"
    /\ gui.dialog = ""
    /\ pc' = "get_data"
    /\ UNCHANGED <<suspended, gui, result, main_return>>
    /\ UNCHANGED <<integrity, bars, strategy, ind, Index, stats, Close,
                   buy_condition, sell_condition, Signal, EquityCurve,
                   in_position, entry_price, i, position, entry_date, trades>>
    /\ UNCHANGED <<download, completed>>

\* run_backtest.py line 97: (Exit Price - Entry Price) / Entry Price * 100.
ProfitPct(ep, xp) ==
    RatMul(RatDiv(RatSub(RatOfInt(xp), RatOfInt(ep)), RatOfInt(ep)), RatOfInt(100))

\* run_backtest.py lines 93-103: the ledger after the export (the column
\* Profit % is added to it when it is not there) and the dialog shown.
ExportTradesToCsv(trades_df) ==
    IF trades_df = None \/ Len(trades_df.rows) = 0
    THEN [trades_df |-> trades_df, dialog |-> "No trades to export"]
    ELSE [trades_df |->
             IF "ProfitPct" \in DOMAIN trades_df.rows[1]
             THEN trades_df
             ELSE DataFrame([t \in 1..Len(trades_df.rows) |->
                     LET row == trades_df.rows[t]
                     IN  [EntryDate |-> row.EntryDate,
                          ExitDate |-> row.ExitDate,
                          EntryPrice |-> row.EntryPrice,
                          ExitPrice |-> row.ExitPrice,
                          ReturnPct |-> row.ReturnPct,
                          ProfitPct |-> ProfitPct(row.EntryPrice, row.ExitPrice)]]),
          dialog |-> "Trades exported"]

\* run_backtest.py line 133: the button Export Trades to CSV, made by
\* display_results with the ledger main returned, is pressed.
ExportTrades ==
    /\ EventLoop
    /\ gui.label = "metrics"
    /\ LET out == ExportTradesToCsv(main_return[2])
       IN  /\ main_return' = <<main_return[1], out.trades_df, main_return[3]>>
           /\ gui' = [gui EXCEPT !.dialog = out.dialog]
    /\ UNCHANGED <<suspended, pc, result>>
    /\ UNCHANGED <<integrity, bars, strategy, ind, Index, stats, Close,
                   buy_condition, sell_condition, Signal, EquityCurve,
                   in_position, entry_price, i, position, entry_date, trades>>
    /\ UNCHANGED <<download, completed>>

\* run_backtest.py lines 106-112 and 136: the button Export Monthly
\* Returns to CSV is pressed; calculate_monthly_returns works on a copy of
\* the table.
ExportMonthlyReturns ==
    /\ EventLoop
    /\ gui.label = "metrics"
    /\ gui' = [gui EXCEPT !.dialog = "Monthly returns exported"]
    /\ UNCHANGED <<suspended, pc, result, main_return>>
    /\ UNCHANGED <<integrity, bars, strategy, ind, Index, stats, Close,
                   buy_condition, sell_condition, Signal, EquityCurve,
                   in_position, entry_price, i, position, entry_date, trades>>
    /\ UNCHANGED <<download, completed>>

\* run_backtest.py lines 75-76, 79-80, 102-103 and 111-112: the dialog of
\* messagebox.showerror or messagebox.showinfo is dismissed and the
\* callback returns.
DismissExport ==
    /\ pc \in {"ready", "shown", "update", "plot"}
    /\ gui.dialog # ""
    /\ gui' = [gui EXCEPT !.dialog = ""]
    /\ UNCHANGED <<suspended, pc, result, main_return>>
    /\ UNCHANGED <<integrity, bars, strategy, ind, Index, stats, Close,
                   buy_condition, sell_condition, Signal, EquityCurve,
                   in_position, entry_price, i, position, entry_date, trades>>
    /\ UNCHANGED <<download, completed>>

\* ------------------------------------------- generate_signals: indicators
\* The rolling windows of the two strategies.
HighWindow == 10
RangeWindow == 25
MinRangeWindow == 6
SmaWindow == 200

\* strategy1.py line 26: the IBS limit 0.3.
IbsLimit == Rat(3, 10)

\* The columns of the bar table, as floats.
HighCol(bs) == [k \in DOMAIN bs |-> RatOfInt(bs[k].High)]
LowCol(bs) == [k \in DOMAIN bs |-> RatOfInt(bs[k].Low)]
CloseCol(bs) == [k \in DOMAIN bs |-> RatOfInt(bs[k].Close)]

\* df["High"] - df["Low"].
HighLowRange(bs) == [k \in DOMAIN bs |-> RatOfInt(bs[k].High - bs[k].Low)]

\* Variant: the column is used as it is, not moved down by one row.
ShiftNone(col) == col

\* Series.shift(1): every value moves down one row, the first row is NaN.
Shift(col) == [k \in DOMAIN col |-> IF k = 1 THEN NaN ELSE col[k-1]]

RECURSIVE SeqMax(_)
SeqMax(xs) ==
    IF Len(xs) = 1
    THEN xs[1]
    ELSE LET m == SeqMax(Tail(xs))
         IN  IF RatLess(m, xs[1]) THEN xs[1] ELSE m

RECURSIVE SeqMin(_)
SeqMin(xs) ==
    IF Len(xs) = 1
    THEN xs[1]
    ELSE LET m == SeqMin(Tail(xs))
         IN  IF RatLess(xs[1], m) THEN xs[1] ELSE m

\* Series.rolling(window=w): the w rows ending at row k hold w numbers.
FullWindow(col, w, k) == k >= w /\ \A j \in (k - w + 1)..k : col[j] # NaN

\* The rows of the window ending at row k.
Window(col, w, k) == [j \in 1..w |-> col[k - w + j]]

\* Series.rolling(window=w).max().
RollingMax(col, w) ==
    [k \in DOMAIN col |->
        IF FullWindow(col, w, k) THEN SeqMax(Window(col, w, k)) ELSE NaN]

\* Series.rolling(window=w).min().
RollingMin(col, w) ==
    [k \in DOMAIN col |->
        IF FullWindow(col, w, k) THEN SeqMin(Window(col, w, k)) ELSE NaN]

\* Variant: min_periods = 1, the mean of the rows there are.
RollingMeanMinPeriodsOne(col, w) ==
    [k \in DOMAIN col |->
        IF k >= w
        THEN Mean(Window(col, w, k))
        ELSE Mean([j \in 1..k |-> col[j]])]

\* Series.rolling(window=w).mean().
RollingMean(col, w) ==
    [k \in DOMAIN col |->
        IF FullWindow(col, w, k) THEN Mean(Window(col, w, k)) ELSE NaN]

\* Float subtraction, NaN when an operand is NaN.
NanSub(x, y) == IF x = NaN \/ y = NaN THEN NaN ELSE RatSub(x, y)

\* strategy1.py line 20: (Close - Low) / (High - Low).  A bar has
\* Low <= Close <= High, so High = Low gives 0/0.
IBS(bs) ==
    [k \in DOMAIN bs |->
        IF bs[k].High = bs[k].Low
        THEN NaN
        ELSE Rat(bs[k].Close - bs[k].Low, bs[k].High - bs[k].Low)]

\* strategy1.py lines 17-20 and strategy4.py lines 17-19: the indicator
\* columns added to the bar table, one record per bar.
Indicators(s, bs) ==
    IF s = "strategy1"
    THEN LET high10 == RollingMax(HighCol(bs), HighWindow)
             range25 == RollingMean(HighLowRange(bs), RangeWindow)
             ibs == IBS(bs)
         IN  [k \in DOMAIN bs |->
                [High_10D |-> high10[k],
                 Range_25D |-> range25[k],
                 Buy_Threshold |-> NanSub(high10[k], range25[k]),
                 IBS |-> ibs[k]]]
    ELSE LET range == HighLowRange(bs)
             min6 == RollingMin(Shift(range), MinRangeWindow)
             sma == RollingMean(CloseCol(bs), SmaWindow)
         IN  [k \in DOMAIN bs |->
                [Range |-> range[k],
                 Min_Range_6D |-> min6[k],
                 SMA_200 |-> sma[k]]]

\* The rows lo..hi of a table none of whose columns is NaN, in their
\* order, found by halves.
RECURSIVE RowsWithoutNaN(_, _, _)
RowsWithoutNaN(tbl, lo, hi) ==
    IF lo > hi
    THEN <<>>
    ELSE IF lo = hi
    THEN IF \A f \in DOMAIN tbl[lo] : tbl[lo][f] # NaN THEN <<lo>> ELSE <<>>
    ELSE LET m == (lo + hi) \div 2
         IN  RowsWithoutNaN(tbl, lo, m) \o RowsWithoutNaN(tbl, m + 1, hi)

\* df.dropna(): the rows none of whose columns is NaN, in their order.
WorkingRows(tbl) == RowsWithoutNaN(tbl, 1, Len(tbl))

\* The values of a row of whole numbers as floating-point values.
Floats(row) == [f \in DOMAIN row |-> RatOfInt(row[f])]

\* strategy1.py lines 17-20 and strategy4.py lines 17-19: the table dropna
\* is called on, the columns of the bar table with the indicator columns
\* tbl added to them.
WorkingTable(bs, tbl) == [k \in DOMAIN bs |-> Floats(bs[k]) @@ tbl[k]]

\* strategy1.py line 26 and strategy4.py line 25, on the working rows idx.
BuyCondition(s, bs, tbl, idx) ==
    [r \in 1..Len(idx) |->
        LET row == tbl[idx[r]]
            close == RatOfInt(bs[idx[r]].Close)
        IN  IF s = "strategy1"
            THEN /\ row.Buy_Threshold # NaN
                 /\ row.IBS # NaN
                 /\ RatLess(close, row.Buy_Threshold)
                 /\ RatLess(row.IBS, IbsLimit)
            ELSE /\ row.Min_Range_6D # NaN
                 /\ row.SMA_200 # NaN
                 /\ RatLess(row.Range, row.Min_Range_6D)
                 /\ RatLess(row.SMA_200, close)]

\* Variant: the close is compared with the High of the next row.
SellConditionNextRow(bs, idx) ==
    [r \in 1..Len(idx) |->
        IF r = Len(idx) THEN FALSE ELSE bs[idx[r]].Close > bs[idx[r+1]].High]

\* Variant: the High is shifted on the bar table, before rows are dropped.
SellConditionBeforeDropna(bs, idx) ==
    [r \in 1..Len(idx) |->
        IF idx[r] = 1 THEN FALSE ELSE bs[idx[r]].Close > bs[idx[r] - 1].High]

\* Line 27 (strategy4.py line 26): Close > High.shift(1) on the working
\* rows; the comparison with the NaN of the first row is False.
SellCondition(bs, idx) ==
    [r \in 1..Len(idx) |->
        IF r = 1 THEN FALSE ELSE bs[idx[r]].Close > bs[idx[r-1]].High]

\* Lines 37-49 as a function of the two condition series: the Signal
\* column after n rows and the position then held.
RECURSIVE SignalColumn(_, _, _)
SignalColumn(buy, sell, n) ==
    IF n = 0
    THEN [Signal |-> <<>>, in_position |-> FALSE]
    ELSE LET prev == SignalColumn(buy, sell, n - 1)
         IN  IF ~prev.in_position /\ buy[n]
             THEN [Signal |-> Append(prev.Signal, 1), in_position |-> TRUE]
             ELSE IF prev.in_position /\ sell[n]
             THEN [Signal |-> Append(prev.Signal, -1), in_position |-> FALSE]
             ELSE [Signal |-> Append(prev.Signal, 0),
                   in_position |-> prev.in_position]

\* Lines 16-49: the working rows and the Signal column generate_signals
\* computes for the bar table bs.
GenerateSignals(s, bs) ==
    LET tbl == Indicators(s, bs)
        idx == WorkingRows(WorkingTable(bs, tbl))
        buy == BuyCondition(s, bs, tbl, idx)
        sell == SellCondition(bs, idx)
    IN  [Index |-> idx, Signal |-> SignalColumn(buy, sell, Len(idx)).Signal]

\* Variant: no copy is made, the indicator columns are added to the
\* table the caller holds.
ComputeIndicatorsInPlace ==
    /\ pc = "indicators"
    /\ ind' = Indicators(strategy, bars)
    /\ bars' = [k \in DOMAIN bars |-> bars[k] @@ Indicators(strategy, bars)[k]]
    /\ pc' = "dropna"
    /\ UNCHANGED <<suspended, integrity, gui, strategy, Index, stats, main_return, Close,
                   buy_condition, sell_condition, Signal, EquityCurve,
                   in_position, entry_price, i, position, entry_date, trades,
                   result>>
    /\ UNCHANGED <<download, completed>>

\* Lines 10 and 16-20 (backtest.py line 184 passes a copy as well): the
\* indicator columns are added to a copy of the table.
ComputeIndicators ==
    /\ pc = "indicators"
    /\ ind' = Indicators(strategy, bars)
    /\ pc' = "dropna"
    /\ UNCHANGED <<suspended, integrity, gui, bars, strategy, Index, stats, main_return, Close,
                   buy_condition, sell_condition, Signal, EquityCurve,
                   in_position, entry_price, i, position, entry_date, trades,
                   result>>
    /\ UNCHANGED <<download, completed>>

\* Lines 23-34: rows with a NaN are dropped, the two conditions are
\* evaluated on the rows that remain, Signal is created as 0 and the
\* position is flat.
DropNa ==
    /\ pc = "dropna"
    /\ LET idx == WorkingRows(WorkingTable(bars, ind))
       IN  /\ Index' = idx
           /\ Close' = [r \in 1..Len(idx) |-> bars[idx[r]].Close]
           /\ buy_condition' = BuyCondition(strategy, bars, ind, idx)
           /\ sell_condition' = SellCondition(bars, idx)
           /\ Signal' = [r \in 1..Len(idx) |-> 0]
    /\ in_position' = FALSE
    /\ entry_price' = 0
    /\ i' = 1
    /\ pc' = "signal"
    /\ UNCHANGED <<suspended, integrity, gui, bars, strategy, ind, stats, main_return, EquityCurve,
                   position, entry_date, trades, result>>
    /\ UNCHANGED <<download, completed>>

\* What a call of yf.download ends with: the table of the ticker, or a
\* failure (an exception, or a table without the required columns).
Downloads == {"table", "failure"}

\* utils/get_data.py lines 53-54: the required columns of the rows of the
\* downloaded table that hold no NaN, in their order.  The prices and
\* volumes downloaded are whole numbers.
CleanRows(rows) ==
    LET idx == WorkingRows(rows)
    IN  [r \in 1..Len(idx) |->
            [f \in DOMAIN rows[idx[r]] |-> rows[idx[r]][f].n]]

\* backtest.py line 179 (utils/get_data.py lines 17-63) and
\* run_backtest.py lines 89-90: get_data raises ValueError when the
\* download failed or came back without rows (line 30, tested on the table
\* as downloaded); else it returns the rows without NaN, which may be
\* none.  When it raises, main leaves by that exception: run from the
\* command line the program ends with it; called by run_backtest, nothing
\* is displayed and the error dialog is opened.
GetData ==
    /\ pc = "get_data"
    /\ \E outcome \in Downloads :
          IF outcome = "failure" \/ download = <<>>
          THEN /\ bars' = bars
               /\ IF gui = NoGui
                  THEN /\ gui' = gui
                       /\ pc' = "raised"
                  ELSE /\ gui' = [gui EXCEPT !.dialog = "Error running backtest"]
                       /\ pc' = "dialog"
          ELSE /\ bars' = CleanRows(download)
               /\ gui' = gui
               /\ pc' = "indicators"
    /\ UNCHANGED <<suspended, integrity, strategy, ind, Index, stats, main_return, Close,
                   buy_condition, sell_condition, Signal, EquityCurve,
                   in_position, entry_price, i, position, entry_date, trades,
                   result>>
    /\ UNCHANGED <<download, completed>>

\* ---------------------------------------------------------- specifications
\* backtest.main run from the command line, taken up before the signal
\* loop: generate_signals on the working series, calculate_metrics on the
\* table it returned, the chart, the return.
Next ==
    \/ PlotEquityCurve
    \/ MainReturn
    \/ SignalIter
    \/ EquityInit
    \/ EquityIter
    \/ Return
    \/ MetricsNoTrades
    \/ MetricsBegin
    \/ LedgerIter
    \/ MetricsReturn

Spec == Init /\ [][Next]_vars

\* The equity loop and calculate_metrics on a table whose Signal column is
\* any series over {1, -1, 0}: the state right after lines 51-54.
SignalValues == {1, -1, 0}

InitAny ==
    /\ \E n \in 0..MaxLen :
          /\ Close \in [1..n -> Prices]
          /\ Signal \in [1..n -> SignalValues]
          /\ EquityCurve = EquityColumn(n)
    /\ NoBars
    /\ buy_condition = <<>>
    /\ sell_condition = <<>>
    /\ pc = "equity"
    /\ in_position = FALSE
    /\ entry_price = 0
    /\ i = 2
    /\ position = 0
    /\ entry_date = 0
    /\ trades = <<>>
    /\ result = Pending
    /\ stats = NoStats
    /\ main_return = Pending
    /\ gui = NoGui
    /\ integrity = Pending
    /\ suspended = <<>>
    /\ completed = {}

NextAny ==
    \/ EquityIter
    \/ Return
    \/ MetricsNoTrades
    \/ MetricsBegin
    \/ LedgerIter
    \/ MetricsReturn

SpecAny == InitAny /\ [][NextAny]_vars

\* check_signal_integrity on a table whose Signal column is any series
\* over {1, -1, 0}.
InitIntegrity ==
    /\ \E n \in 0..MaxLen :
          /\ Close \in [1..n -> Prices]
          /\ Signal \in [1..n -> SignalValues]
    /\ EquityCurve = EquityLoop(Signal, Close)
    /\ NoBars
    /\ buy_condition = <<>>
    /\ sell_condition = <<>>
    /\ pc = "integrity"
    /\ in_position = FALSE
    /\ entry_price = 0
    /\ i = 1
    /\ position = 0
    /\ entry_date = 0
    /\ trades = <<>>
    /\ result = Pending
    /\ stats = NoStats
    /\ main_return = Pending
    /\ gui = NoGui
    /\ integrity = Pending
    /\ suspended = <<>>
    /\ completed = {}

NextIntegrity == CheckIntegrity

SpecIntegrity == InitIntegrity /\ [][NextIntegrity]_vars

\* The run on the scenario's close series, with any entry and exit
\* condition series.
InitScenario ==
    /\ Close = ScenarioClose
    /\ buy_condition \in [1..Len(ScenarioClose) -> BOOLEAN]
    /\ sell_condition \in [1..Len(ScenarioClose) -> BOOLEAN]
    /\ Signal = [k \in 1..Len(ScenarioClose) |-> 0]
    /\ NoBars
    /\ InitLocals

SpecScenario == InitScenario /\ [][Next]_vars

\* backtest.main on the table of a download: a bar repeated some number
\* of times, followed by up to MaxTail bars chosen freely.
MaxTail == 3

\* Bars with Low <= Open, Close <= High: a wide bar closing high, a lower
\* bar closing low, a bar without range, a narrow bar closing high.
BarSet ==
    { [Open |-> 111, High |-> 120, Low |-> 110, Close |-> 119, Volume |-> 1000],
      [Open |-> 109, High |-> 110, Low |-> 100, Close |-> 101, Volume |-> 1000],
      [Open |-> 100, High |-> 100, Low |-> 100, Close |-> 100, Volume |-> 1000],
      [Open |-> 115, High |-> 118, Low |-> 114, Close |-> 117, Volume |-> 1000] }

\* A downloaded row with a missing value: the lower bar without its
\* Volume.
MissingRow ==
    [Floats(CHOOSE b \in BarSet : b.High = 110) EXCEPT !.Volume = NaN]

\* The free bars that may follow a row with a missing value.
MaxAfter == 1

\* The free rows of a download: up to MaxTail bars, or a row with a
\* missing value and up to MaxAfter bars after it.
FreeRows ==
    UNION {{[k \in 1..n |-> Floats(tail[k])] : tail \in [1..n -> BarSet]} :
              n \in 0..MaxTail}
      \cup UNION {{<<MissingRow>> \o [k \in 1..n |-> Floats(tail[k])] :
                      tail \in [1..n -> BarSet]} : n \in 0..MaxAfter}

\* The bars the repeated part is made of.
BaseBars == {b \in BarSet : b.High - b.Low = 10}

\* Lengths of the repeated part, chosen so that the free bars fall around
\* the first row of each rolling window.
PrefixLens(s) == IF s = "strategy1" THEN {0, 8, 24} ELSE {0, 5, 199}

InitBars ==
    /\ strategy \in {"strategy1", "strategy4"}
    /\ \E base \in BaseBars, p \in PrefixLens(strategy), free \in FreeRows :
          download = [k \in 1..p |-> Floats(base)] \o free
    /\ bars = <<>>
    /\ ind = <<>>
    /\ Index = <<>>
    /\ Close = <<>>
    /\ buy_condition = <<>>
    /\ sell_condition = <<>>
    /\ Signal = <<>>
    /\ pc = "get_data"
    /\ EquityCurve = <<>>
    /\ in_position = FALSE
    /\ entry_price = 0
    /\ i = 1
    /\ position = 0
    /\ entry_date = 0
    /\ trades = <<>>
    /\ result = Pending
    /\ stats = NoStats
    /\ main_return = Pending
    /\ gui = NoGui
    /\ integrity = Pending
    /\ suspended = <<>>
    /\ completed = {}

NextBars ==
    \/ GetData
    \/ ComputeIndicators
    \/ DropNa
    \/ Next

SpecBars == InitBars /\ [][NextBars]_vars

\* ------------------------------------------------------- the application
\* run_backtest.py line 88 or 91 of a run started from root.update() or
\* during plt.show(): its callback returns, and the suspended call goes
\* on where it waited with the strategy it read, a call of main with its
\* own result and table (rows, index and columns).  Its df is the table
\* get_data made of the same download.
CallbackReturn ==
    /\ pc = "shown"
    /\ gui.dialog = ""
    /\ suspended # <<>>
    /\ LET top == Head(suspended)
       IN  /\ pc' = top.pc
           /\ strategy' = top.strategy
           /\ result' = IF top.pc = "plot" THEN top.result ELSE result
           /\ Index' = IF top.pc = "plot" THEN top.Index ELSE Index
           /\ Close' = IF top.pc = "plot" THEN top.strategy_df.Close ELSE Close
           /\ Signal' = IF top.pc = "plot" THEN top.strategy_df.Signal ELSE Signal
           /\ EquityCurve' = IF top.pc = "plot" THEN top.strategy_df.EquityCurve
                             ELSE EquityCurve
    /\ suspended' = Tail(suspended)
    /\ UNCHANGED <<integrity, gui, bars, ind, stats, main_return,
                   buy_condition, sell_condition, in_position, entry_price,
                   i, position, entry_date, trades>>
    /\ UNCHANGED <<download, completed>>

\* The bars the free part of the tables of the application is made of:
\* the lower bar closing low and the narrow bar closing high.
AppBars == {b \in BarSet : b.Low < b.High /\ b.High < 120}

\* The application as constructed: no strategy has been run.  The tables
\* yf.download has for its ticker are one bar short of the largest window
\* of strategy1 before their MaxTail free bars from AppBars, the bar
\* without range repeated: the working series of strategy1 is made of the
\* free bars, that of strategy4 has no row.
InitApp ==
    /\ strategy = ""
    /\ \E flat \in {b \in BarSet : b.High = b.Low} :
          \E tail \in [1..MaxTail -> AppBars] :
             download = [k \in 1..(RangeWindow - 1) |-> Floats(flat)]
                           \o [k \in 1..MaxTail |-> Floats(tail[k])]
    /\ bars = <<>>
    /\ ind = <<>>
    /\ Index = <<>>
    /\ Close = <<>>
    /\ buy_condition = <<>>
    /\ sell_condition = <<>>
    /\ Signal = <<>>
    /\ pc = "ready"
    /\ EquityCurve = <<>>
    /\ in_position = FALSE
    /\ entry_price = 0
    /\ i = 1
    /\ position = 0
    /\ entry_date = 0
    /\ trades = <<>>
    /\ result = Pending
    /\ stats = NoStats
    /\ main_return = Pending
    /\ gui = GuiReady
    /\ integrity = Pending
    /\ suspended = <<>>
    /\ completed = {}

\* run_backtest.py: the application, with Run Backtest pressed any
\* number of times.
NextApp ==
    \/ RunBacktest
    \/ StartMain
    \/ DisplayResults
    \/ DismissError
    \/ ExportTrades
    \/ ExportMonthlyReturns
    \/ DismissExport
    \/ CallbackReturn
    \/ NextBars

SpecApp == InitApp /\ [][NextApp]_vars

\* ------------------------------------------------------------------ claims
IsNonHold(x) == x # 0

\* The Signal column read with the holds removed.
NonHold(sig) == SelectSeq(sig, IsNonHold)

Count(sig, v) == Cardinality({k \in 1..Len(sig) : sig[k] = v})

Range(f) == {f[k] : k \in DOMAIN f}

\* C1: the Signal column of generate_signals, read with the holds removed,
\* strictly alternates buy, sell, buy, ... starting with a buy, so the
\* number of sells is the number of buys or one less.
C1_Alternation ==
    LET s == NonHold(Signal)
    IN  /\ \A k \in 1..Len(s) : s[k] = IF k % 2 = 1 THEN 1 ELSE -1
        /\ Count(Signal, -1) \in {Count(Signal, 1), Count(Signal, 1) - 1}

\* C1 witness: the signal loop has finished on a series with two buys and a
\* sell between them (the last position is left open).
C1_Witness ==
    /\ pc = "equity"
    /\ Count(Signal, 1) = 2
    /\ Count(Signal, -1) = 1

\* C2: the signal loop starts flat at the first row, visits the rows in
\* order, and at row i emits buy and goes long iff it was flat and the entry
\* condition holds at i, emits sell and goes flat iff it was long and the
\* exit condition holds at i, and otherwise emits hold and keeps the
\* position; no other row's signal is touched.
C2_Transition ==
    /\ [](pc = "signal" /\ i = 1 => ~in_position)
    /\ [][pc = "signal" /\ pc' = "signal" =>
            LET enter == ~in_position /\ buy_condition[i]
                leave == in_position /\ sell_condition[i]
            IN  /\ i' = i + 1
                /\ Signal'[i] = 1 <=> enter
                /\ Signal'[i] = -1 <=> leave
                /\ Signal'[i] = 0 <=> ~enter /\ ~leave
                /\ enter => in_position'
                /\ leave => ~in_position'
                /\ ~enter /\ ~leave => in_position' = in_position
                /\ \A k \in 1..Len(Signal) : k # i => Signal'[k] = Signal[k]
                /\ Len(Signal') = Len(Signal)
       ]_vars

\* C2 witness: the loop is past its last row and has emitted a buy, a sell
\* and a hold, the hold on a bar whose exit condition held while flat.
C2_Witness ==
    /\ pc = "signal"
    /\ i = Len(Signal) + 1
    /\ Range(Signal) = {1, -1, 0}
    /\ \E k \in 1..Len(Signal) :
          /\ Signal[k] = 0
          /\ sell_condition[k]
          /\ ~buy_condition[k]
          /\ \A j \in 1..(k-1) : Signal[j] = 0

\* C10: a bar on which both conditions hold gets exactly one signal, buy
\* if the position was flat and sell if it was long, and the position flips
\* once; so no trade of the ledger exits on the bar it entered.
C10_OneSignalPerBar ==
    /\ [][pc = "signal" /\ pc' = "signal" /\ buy_condition[i] /\ sell_condition[i] =>
            /\ Signal'[i] = IF in_position THEN -1 ELSE 1
            /\ in_position' = ~in_position
       ]_vars
    /\ [](\A t \in 1..Len(trades) : trades[t].EntryDate < trades[t].ExitDate)

\* C10 witness: both conditions held on a bar processed while flat (it
\* bought) and on a bar processed while long (it sold).
C10_Witness ==
    /\ pc = "signal"
    /\ \E j, k \in 1..(i-1) :
          /\ buy_condition[j] /\ sell_condition[j] /\ Signal[j] = 1
          /\ buy_condition[k] /\ sell_condition[k] /\ Signal[k] = -1


\* C3: at every row i >= 2 the equity loop copies Equity[i-1] and takes
\* Close[i-1] as entry price when Signal[i-1] is a buy; multiplies
\* Equity[i-1] by 1 + (Close[i-1] - entry price)/entry price and goes flat
\* when Signal[i-1] is a sell and it is long; copies Equity[i-1] otherwise.
\* Equity[i] differs from Equity[i-1] only when Signal[i-1] is a sell.
C3_EquityStep ==
    /\ [](pc = "equity" => i >= 2)
    /\ [][pc = "equity" /\ pc' = "equity" =>
            LET prev == EquityCurve[i-1]
                new == EquityCurve'[i]
            IN  /\ i' = i + 1
                /\ Signal[i-1] = 1 =>
                      /\ new = prev
                      /\ entry_price' = Close[i-1]
                      /\ in_position'
                /\ Signal[i-1] = -1 /\ in_position =>
                      /\ new.n * prev.d * entry_price
                            = prev.n * Close[i-1] * new.d
                      /\ new.d > 0
                      /\ ~in_position'
                      /\ entry_price' = entry_price
                /\ ~(Signal[i-1] = 1) /\ ~(Signal[i-1] = -1 /\ in_position) =>
                      /\ new = prev
                      /\ in_position' = in_position
                      /\ entry_price' = entry_price
                /\ new # prev => Signal[i-1] = -1
                /\ \A k \in 1..Len(EquityCurve) : k # i => EquityCurve'[k] = EquityCurve[k]
                /\ Len(EquityCurve') = Len(EquityCurve)
       ]_vars

\* C3 witness: the loop has realized a losing round trip and then met a
\* sell signal while flat, which changed nothing.
C3_Witness ==
    /\ pc = "equity"
    /\ i = Len(Signal) + 1
    /\ \E k \in 3..Len(Signal) :
          /\ RatLess(EquityCurve[k], EquityCurve[k-1])
          /\ \E m \in (k+1)..Len(Signal) :
                Signal[m-1] = -1 /\ EquityCurve[m] = EquityCurve[m-1]

\* C4: Equity[k] is decided by the rows below k alone.  The column of the
\* run agrees at row k with the column of every run on the table cut after
\* row k whose Signal and Close at row k are replaced by any values; two
\* runs that agree on the rows below k agree with the same cut runs, hence
\* with each other at row k.
C4_LagOne ==
    pc \in {"returned", "ledger", "done"} =>
        \A k \in 1..Len(Signal) : \A s \in SignalValues : \A c \in Prices :
            EquityLoop(Append(SubSeq(Signal, 1, k-1), s),
                       Append(SubSeq(Close, 1, k-1), c))[k] = EquityCurve[k]

\* C4 witness: a round trip was realized at row 3, and the last row carries
\* a sell signal while long, which its own equity value does not show.
C4_Witness ==
    /\ pc = "returned"
    /\ Len(Signal) >= 4
    /\ Signal[1] = 1 /\ Signal[2] = -1
    /\ EquityCurve[3] # EquityCurve[2]
    /\ Signal[Len(Signal) - 1] = 1 /\ Signal[Len(Signal)] = -1
    /\ Close[Len(Signal)] # Close[Len(Signal) - 1]
    /\ EquityCurve[Len(Signal)] = EquityCurve[Len(Signal) - 1]

\* C9: the table generate_signals returns has one EquityCurve value per
\* Signal row, on the same rows, and the first one is 1.0 whatever the
\* signal of the first bar.
C9_EquityShape ==
    pc \in {"equity", "returned", "ledger", "done"} /\ Len(Signal) >= 1 =>
        /\ DOMAIN EquityCurve = DOMAIN Signal
        /\ DOMAIN EquityCurve = DOMAIN Close
        /\ EquityCurve[1] = One

\* C9 witness: a table is returned whose first bar carries a buy that a
\* later sell closed with a gain, realized in the curve.
C9_Witness ==
    /\ pc = "returned"
    /\ Len(Signal) >= 3
    /\ Signal[1] = 1
    /\ RatLess(One, EquityCurve[Len(EquityCurve)])


\* The completed buy -> sell round trips of a Signal column: the sells that
\* close a buy with nothing but holds in between.
CompletedRoundTrips(sig) ==
    Cardinality({k \in 1..Len(sig) :
        /\ sig[k] = -1
        /\ \E j \in 1..(k-1) :
              sig[j] = 1 /\ \A m \in (j+1)..(k-1) : sig[m] = 0})

\* C5: calculate_metrics returns a metrics report with a trade ledger
\* whenever the Signal column holds a completed round trip, and None only
\* when it holds none.
C5_ReportIffRoundTrip ==
    pc = "done" => (result = None <=> CompletedRoundTrips(Signal) = 0)

\* C6: on the close series 100, 110, 90, 130 with the only buy at row 1 and
\* the sell at row 4, the run reports exactly one trade, entered at 100,
\* left at 130, with a return of 30.0 %, and the equity curve is
\* 1.0, 1.0, 1.0, 1.3.
C6_Scenario ==
    pc = "done" /\ Close = ScenarioClose /\ Signal = <<1, 0, 0, -1>> =>
        /\ result # None
        /\ Len(result.trades_df) = 1
        /\ result.trades_df[1].EntryPrice = 100
        /\ result.trades_df[1].ExitPrice = 130
        /\ result.trades_df[1].ReturnPct = RatOfInt(30)
        /\ EquityCurve = <<One, One, One, Rat(13, 10)>>

\* The Signal column of the scenario is the one C6 reads: with the entry
\* condition true at row 1 only and the exit condition true at row 4 and
\* false at rows 2 and 3, the signal loop ends with 1, 0, 0, -1.
ScenarioSignal ==
    /\ pc = "equity"
    /\ buy_condition = <<TRUE, FALSE, FALSE, FALSE>>
    /\ ~sell_condition[2] /\ ~sell_condition[3] /\ sell_condition[4]
    => Signal = <<1, 0, 0, -1>>

\* The row of the t-th signal of value v in a Signal column (0 if none).
KthRow(sig, v, t) ==
    LET rows == {k \in 1..Len(sig) :
                    sig[k] = v /\ Cardinality({j \in 1..k : sig[j] = v}) = t}
    IN  IF rows = {} THEN 0 ELSE CHOOSE k \in rows : TRUE

\* C7: every trade of the ledger enters on a row with a buy signal and
\* exits on a strictly later row with a sell signal, with only holds in
\* between; the trades are in chronological order and their intervals do
\* not overlap.
C7_LedgerConsistent ==
    /\ \A t \in 1..Len(trades) :
          LET tr == trades[t]
          IN  /\ tr.EntryDate \in 1..Len(Signal)
              /\ tr.ExitDate \in 1..Len(Signal)
              /\ Signal[tr.EntryDate] = 1
              /\ Signal[tr.ExitDate] = -1
              /\ tr.EntryDate < tr.ExitDate
              /\ \A k \in (tr.EntryDate + 1)..(tr.ExitDate - 1) : Signal[k] = 0
    /\ \A t \in 1..(Len(trades) - 1) : trades[t].ExitDate < trades[t+1].EntryDate
    /\ pc = "done" /\ result # None => result.trades_df = trades

\* C7 witness: calculate_metrics returned a ledger of two trades.
C7_Witness ==
    /\ pc = "done"
    /\ result # None
    /\ Len(result.trades_df) = 2

\* C8: the t-th trade records the close of the row of the t-th buy signal
\* as entry price and the close of the row of the t-th sell signal as exit
\* price, and its Return % is (exit - entry) / entry * 100.
C8_LedgerPrices ==
    \A t \in 1..Len(trades) :
        LET tr == trades[t]
            b == KthRow(Signal, 1, t)
            x == KthRow(Signal, -1, t)
        IN  /\ b # 0 /\ x # 0
            /\ tr.EntryPrice = Close[b]
            /\ tr.ExitPrice = Close[x]
            /\ tr.ReturnPct.d > 0
            /\ tr.ReturnPct.n * tr.EntryPrice
                  = (tr.ExitPrice - tr.EntryPrice) * 100 * tr.ReturnPct.d

\* C8 witness: the ledger returned holds a losing and a winning trade, and
\* the bar after the first sell closes at another price than the sell's bar.
C8_Witness ==
    /\ pc = "done"
    /\ result # None
    /\ Len(result.trades_df) = 2
    /\ result.trades_df[1].ReturnPct.n < 0
    /\ result.trades_df[2].ReturnPct.n > 0
    /\ Close[result.trades_df[1].ExitDate + 1] # result.trades_df[1].ExitPrice


AllHold(sig) == \A k \in 1..Len(sig) : sig[k] = 0

\* C12: when no bar satisfies the entry condition every Signal is hold and
\* the equity curve is 1.0 throughout; on such a table calculate_metrics
\* returns None at its first test, and main returns (None, None, table).
C12_NoEntryNoTrades ==
    /\ pc \in {"signal", "equity"}
       /\ (\A k \in 1..Len(Signal) : ~buy_condition[k])
       => /\ AllHold(Signal)
          /\ pc = "equity" => \A k \in 1..Len(Signal) : EquityCurve[k] = One
    /\ pc \in {"returned", "ledger", "done", "plot", "exit"} /\ AllHold(Signal)
       => /\ \A k \in 1..Len(Signal) : EquityCurve[k] = One
          /\ pc # "ledger"
          /\ pc \in {"done", "plot", "exit"} => result = None
          /\ pc = "exit" => main_return = <<None, None, StrategyDf>>

\* C12 witness: main has returned from a run on four bars none of which
\* carried a signal.
C12_Witness ==
    /\ pc = "exit"
    /\ Len(Signal) = 4
    /\ AllHold(Signal)
    /\ main_return[1] = None

\* The last row that carries a buy or a sell (0 if there is none).
LastNonHoldRow(sig) ==
    LET rows == {k \in 1..Len(sig) : sig[k] # 0}
    IN  IF rows = {} THEN 0 ELSE CHOOSE k \in rows : \A j \in rows : j <= k

\* The ledger calculate_metrics returned, a ledger without rows when it
\* returned None.
ReturnedLedger == IF result = None THEN <<>> ELSE result.trades_df

\* C13: a position still open after the last bar shows as a final +1 in
\* the Signal column; that buy opens no ledger entry and the equity curve
\* does not move from its row on; whenever calculate_metrics has returned,
\* the ledger has as many trades as the Signal column has sells.
C13_TrailingBuy ==
    LET b == LastNonHoldRow(Signal)
    IN  /\ pc = "signal" /\ i > Len(Signal) /\ in_position
           => b # 0 /\ Signal[b] = 1
        /\ pc \in {"returned", "ledger", "done", "plot", "exit"} /\ b # 0 /\ Signal[b] = 1
           => /\ \A k \in b..Len(Signal) : EquityCurve[k] = EquityCurve[b]
              /\ \A t \in 1..Len(trades) :
                    trades[t].EntryDate # b /\ trades[t].ExitDate < b
        /\ pc \in {"done", "plot", "exit"}
           => Len(ReturnedLedger) = Count(Signal, -1)

NonDecreasing(eq) == \A k \in 2..Len(eq) : ~RatLess(eq[k], eq[k-1])

\* C14: the max drawdown calculate_metrics computes from an equity curve
\* of positive values is never above 0, and it is 0 exactly when the curve
\* never decreases.
C14_MaxDrawdown ==
    stats # NoStats =>
        /\ ~RatLess(Zero, stats.max_drawdown)
        /\ stats.max_drawdown = Zero <=> NonDecreasing(EquityCurve)
        /\ \A k \in 1..Len(EquityCurve) : RatLess(Zero, EquityCurve[k])

\* C14 witness: the curve fell below its peak and ended back at its peak.
C14_Witness ==
    /\ stats # NoStats
    /\ RatLess(stats.max_drawdown, Zero)
    /\ \A k \in 1..Len(EquityCurve) :
          ~RatLess(EquityCurve[Len(EquityCurve)], EquityCurve[k])

\* The sum of the Return % of the trades whose return has the sign sgn.
RECURSIVE SignedReturnSum(_, _, _)
SignedReturnSum(tr, sgn, t) ==
    IF t = 0
    THEN Zero
    ELSE LET x == tr[t].ReturnPct
         IN  IF x.n * sgn > 0
             THEN RatAdd(SignedReturnSum(tr, sgn, t - 1), x)
             ELSE SignedReturnSum(tr, sgn, t - 1)

\* C15: a returned report whose ledger has no trade of negative return
\* gives the Profit Factor as "inf", winners or not; with a losing trade
\* it gives the sum of the positive returns over the absolute sum of the
\* negative ones, to two decimals.
C15_ProfitFactor ==
    pc \in {"done", "plot", "exit"} /\ result # None =>
        LET tr == result.trades_df
            gains == SignedReturnSum(tr, 1, Len(tr))
            loss == SignedReturnSum(tr, -1, Len(tr))
        IN  /\ Len(tr) > 0
            /\ (\A t \in 1..Len(tr) : tr[t].ReturnPct.n >= 0)
                  => result.metrics.ProfitFactor = [text |-> "inf"]
            /\ (\E t \in 1..Len(tr) : tr[t].ReturnPct.n < 0)
                  => result.metrics.ProfitFactor
                        \in {[hundredths |-> h] :
                                h \in Rounded(Rat(gains.n * loss.d * 100,
                                                  gains.d * (-loss.n)))}

\* C15 witness: the report of a ledger whose only trade returned exactly 0.
C15_Witness ==
    /\ pc = "done"
    /\ result # None
    /\ Len(result.trades_df) = 1
    /\ result.trades_df[1].ReturnPct = Zero
    /\ result.metrics.ProfitFactor = [text |-> "inf"]

\* C16: when calculate_metrics gets past its first test with an equity
\* curve that is constant, it returns the full report and the Sharpe Ratio
\* in it is "nan".
C16_SharpeNaN ==
    /\ pc \in {"done", "plot", "exit"}
    /\ stats # NoStats
    /\ \A k \in 1..Len(EquityCurve) : EquityCurve[k] = EquityCurve[1]
    => /\ result # None
       /\ result.tag = "tuple"
       /\ result.metrics.SharpeRatio = [text |-> "nan"]
       /\ DOMAIN result.metrics
             = {"TotalTrades", "TotalReturn", "SharpeRatio", "MaxDrawdown",
                "WinRate", "ProfitFactor", "AvgTrade", "AvgWin", "AvgLoss"}
       /\ Len(result.trades_df) > 0

\* C16 witness: a report was returned for a constant curve although the
\* ledger holds a winning trade (its sell is on the last row).
C16_Witness ==
    /\ pc = "done"
    /\ result # None
    /\ \A k \in 1..Len(EquityCurve) : EquityCurve[k] = One
    /\ result.trades_df[1].ReturnPct.n > 0
    /\ result.metrics.SharpeRatio = [text |-> "nan"]


\* The places a bar table is cut at: after any of its last MaxTail + 1
\* bars, or before them.
CutPoints == {j \in 0..Len(bars) : j >= Len(bars) - MaxTail - 1}

\* C11: the signals at the bars up to j are those generate_signals gives
\* for the table cut after bar j: whatever bars follow bar j, the working
\* rows and signals up to j are the same.
C11_NoLookahead ==
    pc = "returned" /\ strategy \in {"strategy1", "strategy4"} =>
        \A j \in CutPoints :
            LET cut == GenerateSignals(strategy, SubSeq(bars, 1, j))
                n == Cardinality({r \in 1..Len(Index) : Index[r] <= j})
            IN  /\ cut.Index = SubSeq(Index, 1, n)
                /\ cut.Signal = SubSeq(Signal, 1, n)

\* C11 witness: a sell was emitted at the last bar and a buy before it; the
\* table cut before the last bar has the buy and not the sell.
C11_Witness ==
    /\ pc = "returned"
    /\ strategy = "strategy4"
    /\ Len(Signal) = 3
    /\ Signal = <<0, 1, -1>>
    /\ GenerateSignals(strategy, SubSeq(bars, 1, Len(bars) - 1)).Signal = <<0, 1>>


\* The largest rolling window of the strategy run.
LargestWindow == IF strategy = "strategy1" THEN RangeWindow ELSE SmaWindow

\* C17: on a bar table shorter than the largest rolling window of the
\* strategy, a table without rows among them, generate_signals returns a
\* table without rows (Close, Signal and EquityCurve are empty),
\* calculate_metrics returns None on it at its first test and main returns
\* (None, None, that table); no step after get_data raises.
C17_ShortSeriesEmpty ==
    /\ [](strategy \in {"strategy1", "strategy4"}
             /\ pc \notin {"get_data", "raised"}
             /\ Len(bars) < LargestWindow =>
            /\ pc \notin {"indicators", "dropna"}
               => Index = <<>> /\ Close = <<>> /\ Signal = <<>>
            /\ EquityCurve = <<>>
            /\ pc # "ledger"
            /\ pc \in {"done", "plot", "exit"} => result = None
            /\ pc # "plot"
            /\ pc = "exit" => main_return = <<None, None, StrategyDf>>)
    /\ [][pc' = "raised" => pc = "get_data"]_vars

\* C17 witness: the download has as many rows as the largest window of
\* strategy4, get_data has dropped one of them, and main has returned
\* (None, None, a table without rows).
C17_Witness ==
    /\ strategy = "strategy4"
    /\ Len(download) = SmaWindow
    /\ Len(bars) = SmaWindow - 1
    /\ pc = "exit"
    /\ main_return = <<None, None, [Close |-> <<>>, Signal |-> <<>>, EquityCurve |-> <<>>]>>

\* The column col of the indicator table is NaN at exactly its first n rows
\* (all its rows, if it has no more).
UndefinedFirst(col, n) ==
    \A k \in 1..Len(ind) : ind[k][col] = NaN <=> k <= n

\* C18 as stated: every rolling indicator of window w is undefined at
\* exactly the first w - 1 bars.
C18_WindowMinusOne ==
    pc # "indicators" /\ strategy \in {"strategy1", "strategy4"} =>
        IF strategy = "strategy1"
        THEN /\ UndefinedFirst("High_10D", HighWindow - 1)
             /\ UndefinedFirst("Range_25D", RangeWindow - 1)
        ELSE /\ UndefinedFirst("Min_Range_6D", MinRangeWindow - 1)
             /\ UndefinedFirst("SMA_200", SmaWindow - 1)

\* C18 amended: 10D_High, Range_25D and SMA_200 are undefined at exactly
\* the first w - 1 bars; Min_Range_6D, whose window runs over the range
\* moved down by one bar, is undefined at exactly the first w bars.
C18_WindowAndShift ==
    pc # "indicators" /\ strategy \in {"strategy1", "strategy4"} =>
        IF strategy = "strategy1"
        THEN /\ UndefinedFirst("High_10D", HighWindow - 1)
             /\ UndefinedFirst("Range_25D", RangeWindow - 1)
        ELSE /\ UndefinedFirst("Min_Range_6D", MinRangeWindow)
             /\ UndefinedFirst("SMA_200", SmaWindow - 1)

\* C18 witness: Min_Range_6D is NaN at bar 6 and a number at bar 7, and
\* SMA_200 is a number at bar 200.
C18_Witness ==
    /\ strategy = "strategy4"
    /\ pc = "dropna"
    /\ Len(ind) > SmaWindow
    /\ ind[MinRangeWindow].Min_Range_6D = NaN
    /\ ind[MinRangeWindow + 1].Min_Range_6D # NaN
    /\ ind[SmaWindow].SMA_200 # NaN

\* Every indicator of the strategy has a value at bar k.
AllDefined(k) ==
    IF strategy = "strategy1"
    THEN /\ ind[k].High_10D # NaN
         /\ ind[k].Range_25D # NaN
         /\ ind[k].Buy_Threshold # NaN
         /\ ind[k].IBS # NaN
    ELSE /\ ind[k].Range # NaN
         /\ ind[k].Min_Range_6D # NaN
         /\ ind[k].SMA_200 # NaN

\* The rows of the download that hold no NaN.
CompleteRows ==
    {k \in 1..Len(download) :
        \A f \in DOMAIN download[k] : download[k][f] # NaN}

\* C19: the bar table is made of the rows of the download that hold no
\* NaN, and dropna, which looks at every column, drops from it the bars at
\* which an indicator is undefined and no other: the working rows are the
\* bars at which every indicator is defined, in their order (in strategy1
\* a bar with High = Low is none of them); the Close of a working row is
\* that of its bar; the exit
\* condition compares it with the High of the working row before, and is
\* false at the first working row.
C19_WorkingSeries ==
    pc \notin {"get_data", "raised", "indicators", "dropna"}
       /\ strategy \in {"strategy1", "strategy4"} =>
        /\ Len(bars) = Cardinality(CompleteRows)
        /\ \A r \in 1..Len(Index) : Index[r] \in 1..Len(bars)
        /\ \A r \in 2..Len(Index) : Index[r-1] < Index[r]
        /\ \A k \in 1..Len(bars) :
              (\E r \in 1..Len(Index) : Index[r] = k) <=> AllDefined(k)
        /\ \A k \in 1..Len(bars) :
              strategy = "strategy1" /\ bars[k].High = bars[k].Low
                 => \A r \in 1..Len(Index) : Index[r] # k
        /\ Len(Close) = Len(Index)
        /\ \A r \in 1..Len(Index) : Close[r] = bars[Index[r]].Close
        /\ pc \in {"signal", "equity"} =>
              /\ Len(sell_condition) = Len(Index)
              /\ \A r \in 1..Len(Index) :
                    sell_condition[r]
                       <=> /\ r > 1
                           /\ bars[Index[r]].Close > bars[Index[r-1]].High

\* C19 witness: a bar with High = Low was dropped between two working
\* rows, and the close after it is above its High but not above the High
\* of the working row before: the exit condition is false.
C19_Witness ==
    /\ strategy = "strategy1"
    /\ pc = "signal"
    /\ \E r \in 2..Len(Index) :
          /\ Index[r] = Index[r-1] + 2
          /\ bars[Index[r] - 1].High = bars[Index[r] - 1].Low
          /\ bars[Index[r]].Close > bars[Index[r] - 1].High
          /\ ~sell_condition[r]


\* C20: any two completed runs of the same strategy on the table of the
\* same download, whatever was run between them and whatever the runs
\* before left behind, gave the same table (Close, Signal, EquityCurve) to
\* calculate_metrics, and calculate_metrics returned the same (the metrics
\* and the ledger, or None).
C20_SecondRunSame ==
    \A a, b \in completed :
        a.strategy = b.strategy =>
            /\ a.strategy_df = b.strategy_df
            /\ a.result = b.result

\* C20 witness: a strategy was run again and returned a report with
\* trades, the other strategy was run as well, and a call of main is
\* suspended below the running one.
C20_Witness ==
    /\ \E c, d \in completed :
          /\ c.again
          /\ c.result # None
          /\ Len(c.result.trades_df) > 0
          /\ d.strategy # c.strategy
    /\ suspended # <<>>


\* The number of trades of the ledger whose return has the sign sgn.
SignedCount(tr, sgn) == Cardinality({t \in 1..Len(tr) : tr[t].ReturnPct.n * sgn > 0})

\* The mean of the returns of sign sgn as it can be shown to two decimals,
\* 0 if there is none.
SignedMean2f(tr, sgn) ==
    IF SignedCount(tr, sgn) = 0
    THEN {[hundredths |-> 0]}
    ELSE LET sum == SignedReturnSum(tr, sgn, Len(tr))
         IN  {[hundredths |-> h] :
                 h \in Rounded(Rat(sum.n * 100, sum.d * SignedCount(tr, sgn)))}

\* C21: in a returned report Avg Win is 0 when no trade has a positive
\* return and Avg Loss is 0 when none has a negative one; a trade of
\* return 0 is counted in Total Trades and in Avg Trade, and is in neither
\* the mean of the wins nor the mean of the losses.
C21_AvgWinLoss ==
    pc \in {"done", "plot", "exit"} /\ result # None =>
        LET tr == result.trades_df
            all == RatAdd(SignedReturnSum(tr, 1, Len(tr)),
                          SignedReturnSum(tr, -1, Len(tr)))
        IN  /\ result.metrics.TotalTrades = Len(tr)
            /\ result.metrics.AvgTrade
                  \in {[hundredths |-> h] :
                          h \in Rounded(Rat(all.n * 100, all.d * Len(tr)))}
            /\ result.metrics.AvgWin \in SignedMean2f(tr, 1)
            /\ result.metrics.AvgLoss \in SignedMean2f(tr, -1)
            /\ result.metrics.WinRate
                  \in {[pct_hundredths |-> h] :
                          h \in Rounded(Rat(SignedCount(tr, 1) * 10000, Len(tr)))}

\* C21 witness: the report of a ledger with a trade of return 0 and a
\* winning trade, and no losing one.
C21_Witness ==
    /\ pc = "done"
    /\ result # None
    /\ Len(result.trades_df) = 2
    /\ result.trades_df[1].ReturnPct = Zero
    /\ result.trades_df[2].ReturnPct.n > 0
    /\ result.metrics.AvgLoss = [hundredths |-> 0]
    /\ result.metrics.AvgWin = [hundredths |-> 1000]
    /\ result.metrics.AvgTrade = [hundredths |-> 500]


\* C22: when the run ends with main's no-trades result, the window shows
\* "No trades executed", the status is "Backtest completed" and no error
\* dialog is raised.
C22_NoTradesShown ==
    pc \in {"dialog", "shown"} /\ main_return # Pending /\ main_return[1] = None =>
        /\ pc = "shown"
        /\ gui.label = "No trades executed"
        /\ gui.status = "Backtest completed"
        /\ gui.dialog = ""


\* The product of Exit Price / Entry Price over the first t trades of the
\* ledger whose exit is before row n.
RECURSIVE RealizedProduct(_, _, _)
RealizedProduct(tr, n, t) ==
    IF t = 0
    THEN One
    ELSE IF tr[t].ExitDate < n
    THEN RatMul(RealizedProduct(tr, n, t - 1), Rat(tr[t].ExitPrice, tr[t].EntryPrice))
    ELSE RealizedProduct(tr, n, t - 1)

\* C23: once the ledger is complete, and whenever calculate_metrics has
\* returned, the last equity value is the product of Exit Price / Entry
\* Price over the trades of the ledger whose sell is before the last row;
\* a round trip whose sell is on the last row is in the ledger (and so in
\* the trade statistics of the report) and not in the equity curve, and
\* Total Return is taken from that curve.
C23_RealizedEquity ==
    LET n == Len(Signal)
        realized == RealizedProduct(trades, n, Len(trades))
        ledger == ReturnedLedger
    IN  /\ pc = "ledger" /\ i > n /\ n > 0
           => /\ EquityCurve[n] = realized
              /\ stats.total_return = RatSub(realized, One)
              /\ Signal[n] = -1
                 => /\ Len(trades) > 0
                    /\ trades[Len(trades)].ExitDate = n
                    /\ EquityCurve[n]
                          = RealizedProduct(trades, n, Len(trades) - 1)
        /\ pc \in {"done", "plot", "exit", "shown"} /\ n > 0
           => /\ EquityCurve[n] = RealizedProduct(ledger, n, Len(ledger))
              /\ Signal[n] = -1
                 => /\ Len(ledger) > 0
                    /\ ledger[Len(ledger)].ExitDate = n
              /\ result # None
                 => /\ result.trades_df = trades
                    /\ result.metrics.TotalTrades = Len(trades)
                    /\ result.metrics.TotalReturn
                          \in FormatPct(RatSub(realized, One))

\* The last row among the first k that carries the signal v (0 if none).
LastRowWith(sig, v, k) ==
    LET rows == {j \in 1..k : sig[j] = v}
    IN  IF rows = {} THEN 0 ELSE CHOOSE j \in rows : \A h \in rows : h <= j

\* The position the Signal column stands for after row k: long when the
\* last buy is later than the last sell.
LongAfter(sig, k) == LastRowWith(sig, 1, k) > LastRowWith(sig, -1, k)

\* C24: the three position trackers agree.  The signal loop's in_position
\* after row k is the position the Signal column stands for; the equity
\* loop, which reads row k-1 when it writes row k, holds the position of
\* one row before; the ledger scan holds the position of the row it has
\* read.  No guard suppresses a signal: the equity loop is long at every
\* sell it reads, the ledger scan is flat at every buy and long at every
\* sell, and both hold the close of the matching buy as entry price.
C24_TrackersAgree ==
    /\ pc = "signal" => in_position = LongAfter(Signal, i - 1)
    /\ pc = "equity" =>
          /\ in_position = LongAfter(Signal, i - 2)
          /\ i <= Len(Signal) /\ Signal[i-1] = -1
             => /\ in_position
                /\ entry_price = Close[LastRowWith(Signal, 1, i - 1)]
    /\ pc = "ledger" =>
          /\ (position = 1) = LongAfter(Signal, i - 1)
          /\ position \in {0, 1}
          /\ i <= Len(Signal) /\ Signal[i] = 1 => position = 0
          /\ i <= Len(Signal) /\ Signal[i] = -1
             => /\ position = 1
                /\ entry_price = Close[LastRowWith(Signal, 1, i)]

\* C24 witness: the equity loop is about to realize a sell whose buy lies
\* two rows or more before it, at another close.
C24_Witness ==
    /\ pc = "equity"
    /\ i <= Len(Signal)
    /\ Signal[i-1] = -1
    /\ in_position
    /\ LastRowWith(Signal, 1, i - 1) < i - 2
    /\ Close[LastRowWith(Signal, 1, i - 1)] # Close[i-2]
    /\ entry_price = Close[LastRowWith(Signal, 1, i - 1)]


\* C25: once get_data has returned the bar table, no step of the run
\* changes it, nor the download it was made from: indicator columns are
\* added to, and rows dropped from, a copy.
C25_BarsUnchanged ==
    [][/\ pc # "get_data" => bars' = bars
       /\ download' = download
       /\ pc = "indicators" => Len(ind') = Len(bars')
       /\ pc = "dropna" => Len(Index') <= Len(bars')]_vars

\* C25 witness: generate_signals has added its indicator columns and
\* dropped rows, some but not all, from its working table.
C25_Witness ==
    /\ pc = "signal"
    /\ strategy = "strategy1"
    /\ Len(ind) = Len(bars)
    /\ Len(Index) > 0
    /\ Len(Index) < Len(bars)
    /\ DOMAIN bars[1] = {"Open", "High", "Low", "Close", "Volume"}


\* C26: with every Close positive, every value of the equity curve is
\* positive, so is every running peak the drawdown divides by, and the
\* entry price the equity loop and the ledger scan divide by at a sell is
\* the close of a buy, never the 0 they start with.
C26_PositiveDivisors ==
    (\A k \in 1..Len(Close) : Close[k] > 0) =>
        /\ \A k \in 1..Len(EquityCurve) : RatLess(Zero, EquityCurve[k])
        /\ pc = "equity" /\ i <= Len(Signal) /\ Signal[i-1] = -1 /\ in_position
           => entry_price > 0
        /\ pc = "ledger" /\ i <= Len(Signal) /\ Signal[i] = -1 /\ position = 1
           => entry_price > 0
        /\ pc = "ledger" /\ i = 1
           => \A k \in 1..Len(EquityCurve) : RatLess(Zero, Peak(EquityCurve)[k])

\* C26 witness: the ledger scan is about to divide by the entry price at
\* a sell, on a curve that has fallen below 1.
C26_Witness ==
    /\ pc = "ledger"
    /\ i <= Len(Signal)
    /\ Signal[i] = -1
    /\ position = 1
    /\ entry_price > 0
    /\ RatLess(EquityCurve[Len(EquityCurve)], One)


\* The series, with the holds removed, strictly alternates buy, sell,
\* buy, ... starting with a buy.
AlternatesFromBuy(sig) ==
    LET nh == NonHold(sig)
    IN  \A k \in 1..Len(nh) : nh[k] = IF k % 2 = 1 THEN 1 ELSE -1

\* C27: check_signal_integrity returns (True, []) exactly for the series
\* over {1, -1, 0} that, with the holds removed, strictly alternate
\* starting with a buy.
C27_IntegritySoundComplete ==
    pc = "checked" =>
        /\ integrity[1] <=> AlternatesFromBuy(Signal)
        /\ integrity[1] <=> integrity[2] = <<>>

====
